---- MODULE Spec2Model ----
(***************************************************************************)
(* WhatsApp auto-reply bot: the message intake and auto-reply pipeline     *)
(* (MessageProcessor), the in-memory stores (CustomerDatabase,             *)
(* MessageDatabase, SettingsDatabase), the webhook POST route, the settings *)
(* update route and the RateLimiter / MessageValidator utilities.          *)
(*                                                                         *)
(* Every handler is an async function on a single-threaded event loop: it  *)
(* runs without interruption from one await to the next, and other         *)
(* handlers may run while it is suspended.  One action below is one such   *)
(* run; a process's pc names the await it is suspended at.                 *)
(***************************************************************************)
EXTENDS Integers, Sequences, FiniteSets, TLC

VARIABLES
    customers,      \* database.ts `customers`: the stored Customer records, in array order
    messages,       \* database.ts `messages`: the stored Message records, in array order
    botSettings,    \* database.ts `botSettings`: <<>> (null) or <<settings>>
    whatsappApi,    \* MessageProcessor.whatsappApi: the credentials of the current client
    procs,          \* the processIncomingMessage invocations: pc and locals
    posts,          \* the webhook POST requests: pc, request, loop position, response
    putReq,         \* the settings PUT in flight (one at a time): <<>> or <<its body>>
    requests,       \* RateLimiter.requests: phone number -> accepted timestamps
    now,            \* Date.now(), in milliseconds
    nextId,         \* the ids generateId() has handed out so far
    nextWamid,      \* the message ids the WhatsApp API has handed out so far
    delivered,      \* inbound messages the webhook has handed to the processor
    settingsPuts,   \* settings updates requested so far
    autoReplies,    \* inbound channel message id -> auto-replies the API accepted for it
    calls,          \* the RateLimiter.isAllowed calls made so far: phone, time, result
    lastCall,       \* the last call of a function or handler that answers at once:
                    \* <<>> or <<[op, args, result]>>
    manual          \* the sendManualMessage invocation: pc and locals

vars == <<customers, messages, botSettings, whatsappApi, procs, posts, putReq, requests,
          now, nextId, nextWamid, delivered, settingsPuts, autoReplies, calls,
          lastCall, manual>>

----------------------------------------------------------------------------
(* Bounds of the model *)

MaxSettingsPuts == 1
BurstSize == 6
MaxCalls == 7

\* the webhook deliveries (POST requests) in flight at the same time
Procs == {"p1", "p2"}
Phones == {"15550001", "15550002"}

\* the instants at which something happens, in milliseconds: around the ends of
\* one and of two rate windows
Times == {0, 1, 59999, 60000, 60001, 120000}

\* the instants of a burst: inside the window of its first message, and past it
BurstTimes == {1, 60001}

Range(s) == {s[i] : i \in DOMAIN s}

----------------------------------------------------------------------------
(* Message bodies.  A body is a string; Chars spells it out so that the     *)
(* regular expressions of the code can be evaluated character by character. *)

Chars(b) ==
    CASE b = "Hi" -> <<"H", "i">>
      [] b = "OK" -> <<"O", "K">>
      [] b = " thanks " -> <<" ", "t", "h", "a", "n", "k", "s", " ">>
      [] b = "free prize" -> <<"f", "r", "e", "e", " ", "p", "r", "i", "z", "e">>
      [] b = "freedom" -> <<"f", "r", "e", "e", "d", "o", "m">>
      [] b = "aaaaaaaaaaa" -> <<"a", "a", "a", "a", "a", "a", "a", "a", "a", "a", "a">>
      [] b = "[Media message]" -> <<"[", "M", "e", "d", "i", "a", " ", "m", "e", "s", "s",
                                    "a", "g", "e", "]">>
      [] b = "00:00" -> <<"0", "0", ":", "0", "0">>
      [] b = "09:00" -> <<"0", "9", ":", "0", "0">>
      [] b = "10:00" -> <<"1", "0", ":", "0", "0">>
      [] b = "14:00" -> <<"1", "4", ":", "0", "0">>
      [] b = "17:00" -> <<"1", "7", ":", "0", "0">>
      [] b = "23:59" -> <<"2", "3", ":", "5", "9">>
      [] OTHER -> <<>>

Whitespace == {" ", "\t", "\n"}

\* String.prototype.toLowerCase, on the letters the bodies use
LowerChar(c) ==
    CASE c = "H" -> "h" [] c = "O" -> "o" [] c = "K" -> "k" [] c = "M" -> "m"
      [] c = "T" -> "t" [] c = "F" -> "f" [] OTHER -> c

ToLower(cs) == [i \in DOMAIN cs |-> LowerChar(cs[i])]

\* String.prototype.trim
Trim(cs) ==
    LET keep == {i \in DOMAIN cs : cs[i] \notin Whitespace}
    IN  IF keep = {} THEN <<>>
        ELSE LET lo == CHOOSE i \in keep : \A j \in keep : i <= j
                 hi == CHOOSE i \in keep : \A j \in keep : j <= i
             IN  SubSeq(cs, lo, hi)

\* /^(ok|okay|thanks|thank you|got it)$/i and /^(delivered|read)$/i
SkipWords ==
    { <<"o", "k">>, <<"o", "k", "a", "y">>, <<"t", "h", "a", "n", "k", "s">>,
      <<"t", "h", "a", "n", "k", " ", "y", "o", "u">>, <<"g", "o", "t", " ", "i", "t">>,
      <<"d", "e", "l", "i", "v", "e", "r", "e", "d">>, <<"r", "e", "a", "d">> }

\* /^(thumbs up|ok hand|check mark|folded hands)$/ : one emoji, case-sensitive
SkipEmoji == { <<"U+1F44D">>, <<"U+1F44C">>, <<"U+2705">>, <<"U+1F64F">> }

\* a variant whose acknowledgement words match in lower case only
shouldSendAutoReplyCaseSensitive(messageContent) ==
    LET t == Trim(Chars(messageContent))
    IN  ~(t \in SkipWords \/ t \in SkipEmoji)

\* MessageProcessor.shouldSendAutoReply
shouldSendAutoReply(messageContent) ==
    LET t == Trim(Chars(messageContent))
    IN  ~(ToLower(t) \in SkipWords \/ t \in SkipEmoji)

\* the spam keywords of /\b(free|prize|winner|urgent|act now)\b/gi
SpamWords ==
    { <<"f", "r", "e", "e">>, <<"p", "r", "i", "z", "e">>,
      <<"w", "i", "n", "n", "e", "r">>, <<"u", "r", "g", "e", "n", "t">>,
      <<"a", "c", "t", " ", "n", "o", "w">> }

WordChars ==
    {"a", "b", "c", "d", "e", "f", "g", "h", "i", "j", "k", "l", "m", "n", "o", "p",
     "q", "r", "s", "t", "u", "v", "w", "x", "y", "z", "H", "O", "K", "M", "T", "F",
     "0", "1", "2", "3", "4", "5", "6", "7", "8", "9", "_"}

\* \b at position i (between cs[i-1] and cs[i])
WordBoundary(cs, i) ==
    LET before == i > 1 /\ cs[i - 1] \in WordChars
        after == i <= Len(cs) /\ cs[i] \in WordChars
    IN  before # after

RunRepeat == 10

\* /(.)\1{10,}/ : a character other than a line break, repeated 10 more times
HasRepeatedRun(cs) ==
    \E i \in DOMAIN cs :
        /\ cs[i] # "\n"
        /\ i + RunRepeat <= Len(cs)
        /\ \A k \in 1..RunRepeat : cs[i + k] = cs[i]

UrlTail == 50

\* /https?:\/\/[^\s]{50,}/
HasLongUrl(cs) ==
    \E i \in DOMAIN cs : \E scheme \in { <<"h", "t", "t", "p", ":", "/", "/">>,
                                        <<"h", "t", "t", "p", "s", ":", "/", "/">> } :
        LET j == i + Len(scheme)
        IN  /\ j - 1 + UrlTail <= Len(cs)
            /\ SubSeq(cs, i, j - 1) = scheme
            /\ \A k \in j..(j - 1 + UrlTail) : cs[k] \notin Whitespace

HasSpamWord(cs) ==
    \E i \in DOMAIN cs : \E w \in SpamWords :
        LET j == i + Len(w)
        IN  /\ j - 1 <= Len(cs)
            /\ ToLower(SubSeq(cs, i, j - 1)) = w
            /\ WordBoundary(cs, i)
            /\ WordBoundary(cs, j)

\* MessageValidator.detectSpam: hasSpamPattern
HasSpamPattern(content) ==
    LET cs == Chars(content)
    IN  HasRepeatedRun(cs) \/ HasLongUrl(cs) \/ HasSpamWord(cs)

----------------------------------------------------------------------------
(* Stores: database.ts *)

\* SettingsDatabase.get: the schedule of the default settings
DefaultSchedule ==
    [ monday |-> [start |-> "09:00", end |-> "17:00", enabled |-> TRUE],
      tuesday |-> [start |-> "09:00", end |-> "17:00", enabled |-> TRUE],
      wednesday |-> [start |-> "09:00", end |-> "17:00", enabled |-> TRUE],
      thursday |-> [start |-> "09:00", end |-> "17:00", enabled |-> TRUE],
      friday |-> [start |-> "09:00", end |-> "17:00", enabled |-> TRUE],
      saturday |-> [start |-> "10:00", end |-> "14:00", enabled |-> FALSE],
      sunday |-> [start |-> "10:00", end |-> "14:00", enabled |-> FALSE] ]

\* SettingsDatabase.get: the default settings of the lazy initialisation
DefaultSettings ==
    [ isActive |-> TRUE,
      businessHours |-> [ enabled |-> FALSE, timezone |-> "America/New_York",
                          schedule |-> DefaultSchedule ],
      autoReply |-> [ newCustomerMessage |-> "Hello! Thank you for contacting us.",
                      returningCustomerMessage |-> "Hello again! Thanks for reaching out.",
                      afterHoursMessage |-> "We're currently outside business hours.",
                      fallbackMessage |-> "Thank you for your message." ],
      verifyToken |-> "default_verify_token",
      accessToken |-> "",
      phoneNumberId |-> "" ]

\* SettingsDatabase.get: `botSettings` after the call (initialised when it was null)
SettingsAfterGet(stored) == IF stored = <<>> THEN <<DefaultSettings>> ELSE stored

\* CustomerDatabase.findByPhoneNumber: <<>> (null) or <<the first match>>
findByPhoneNumber(cs, phoneNumber) ==
    LET hits == {i \in DOMAIN cs : cs[i].phoneNumber = phoneNumber}
    IN  IF hits = {} THEN <<>>
        ELSE <<cs[CHOOSE i \in hits : \A j \in hits : i <= j]>>

\* a variant that creates the customer as a returning one
NewCustomerNotNew(id, phoneNumber) ==
    [id |-> id, phoneNumber |-> phoneNumber, isNew |-> FALSE, messageCount |-> 0]

\* CustomerDatabase.create, called by findOrCreateCustomer
NewCustomer(id, phoneNumber) ==
    [id |-> id, phoneNumber |-> phoneNumber, isNew |-> TRUE, messageCount |-> 0]

\* CustomerDatabase.update(id, {lastMessageAt, messageCount}): the first record with
\* that id is replaced by a copy carrying the update; no such record, no change
UpdateMessageCount(cs, id, count) ==
    LET hits == {i \in DOMAIN cs : cs[i].id = id}
    IN  IF hits = {} THEN cs
        ELSE LET k == CHOOSE i \in hits : \A j \in hits : i <= j
             IN  [cs EXCEPT ![k].messageCount = count]

\* CustomerDatabase.update(id, {isNew: false})
UpdateIsNew(cs, id) ==
    LET hits == {i \in DOMAIN cs : cs[i].id = id}
    IN  IF hits = {} THEN cs
        ELSE LET k == CHOOSE i \in hits : \A j \in hits : i <= j
             IN  [cs EXCEPT ![k].isNew = FALSE]

\* MessageDatabase.create: the record is given an id and pushed
CreateMessage(ms, id, data, createdAt) ==
    Append(ms, [ id |-> id,
                 customerId |-> data.customerId,
                 messageId |-> data.messageId,
                 direction |-> data.direction,
                 content |-> data.content,
                 status |-> data.status,
                 isAutoReply |-> data.isAutoReply,
                 timestamp |-> data.timestamp,
                 createdAt |-> createdAt ])

\* a variant that stores a record for a channel message id it does not know
updateStatusOrInsert(ms, messageId, status) ==
    LET hits == {i \in DOMAIN ms : ms[i].messageId = messageId}
    IN  IF hits = {}
        THEN Append(ms, [ id |-> 0, customerId |-> 0, messageId |-> messageId,
                          direction |-> "outgoing", content |-> "", status |-> status,
                          isAutoReply |-> FALSE, timestamp |-> 0, createdAt |-> 0 ])
        ELSE LET k == CHOOSE i \in hits : \A j \in hits : i <= j
             IN  [ms EXCEPT ![k].status = status]

\* a variant that keeps the record as it was and adds a copy with the new status
updateStatusKeepingHistory(ms, messageId, status) ==
    LET hits == {i \in DOMAIN ms : ms[i].messageId = messageId}
    IN  IF hits = {} THEN ms
        ELSE LET k == CHOOSE i \in hits : \A j \in hits : i <= j
             IN  Append(ms, [ms[k] EXCEPT !.status = status])

\* a variant that stores the new status without the fields of the record it replaces
updateStatusWithoutSpread(ms, messageId, status) ==
    LET hits == {i \in DOMAIN ms : ms[i].messageId = messageId}
    IN  IF hits = {} THEN ms
        ELSE LET k == CHOOSE i \in hits : \A j \in hits : i <= j
             IN  [ms EXCEPT ![k] = [ id |-> 0, customerId |-> 0, messageId |-> "",
                                    direction |-> "", content |-> "", status |-> status,
                                    isAutoReply |-> FALSE, timestamp |-> 0,
                                    createdAt |-> 0 ]]

\* MessageDatabase.updateStatus: the first record with that channel message id
updateStatus(ms, messageId, status) ==
    LET hits == {i \in DOMAIN ms : ms[i].messageId = messageId}
    IN  IF hits = {} THEN ms
        ELSE LET k == CHOOSE i \in hits : \A j \in hits : i <= j
             IN  [ms EXCEPT ![k].status = status]

\* Array.prototype.sort with the comparator b.timestamp - a.timestamp: newest
\* first, and messages of one timestamp in the order they had (the sort is stable)
RECURSIVE SortNewestFirst(_)
SortNewestFirst(ms) ==
    IF ms = <<>> THEN <<>>
    ELSE LET rest == SortNewestFirst(SubSeq(ms, 1, Len(ms) - 1))
             m == ms[Len(ms)]
             k == Cardinality({i \in DOMAIN rest : rest[i].timestamp >= m.timestamp})
         IN  SubSeq(rest, 1, k) \o <<m>> \o SubSeq(rest, k + 1, Len(rest))

\* Array.prototype.slice(start, end) with indices that are not negative
Slice(ms, start, end) ==
    SubSeq(ms, start + 1, IF end < Len(ms) THEN end ELSE Len(ms))

\* MessageDatabase.findRecent: `messages` after the call; sort works in place
StoredAfterFindRecent(ms) == SortNewestFirst(ms)

\* MessageDatabase.findRecent(limit): what the call returns
FindRecentResult(ms, limit) == Slice(SortNewestFirst(ms), 0, limit)

\* MessageDatabase.findByCustomerId(customerId, {limit, offset}): what the call
\* returns; filter makes a new array, and an offset or limit of 0 is not applied
FindByCustomerIdResult(ms, customerId, offset, limit) ==
    LET filtered == SelectSeq(ms, LAMBDA m : m.customerId = customerId)
        sorted == SortNewestFirst(filtered)
        skipped == IF offset # 0 THEN Slice(sorted, offset, Len(sorted)) ELSE sorted
    IN  IF limit # 0 THEN Slice(skipped, 0, limit) ELSE skipped

----------------------------------------------------------------------------
(* WhatsApp API client: whatsapp.ts *)

\* WhatsAppAPI.parseIncomingMessage
parseIncomingMessage(message) ==
    [ from |-> message.from,
      content |-> IF message.text = <<>> \/ message.text[1] = ""
                  THEN "[Media message]" ELSE message.text[1],
      messageId |-> message.id,
      timestamp |-> message.timestamp * 1000 ]

\* the guard of sendMessage and markAsRead: both credentials are set
Configured(api) == api.accessToken # "" /\ api.phoneNumberId # ""

\* the ids the WhatsApp API answers a send with
Wamids == <<"wamid.out1", "wamid.out2", "wamid.out3", "wamid.out4",
            "wamid.out5", "wamid.out6", "wamid.out7", "wamid.out8">>

----------------------------------------------------------------------------
(* Business hours: whatsapp.ts, class BusinessHours *)

\* the weekdays in the order of Date.getDay, as toLocaleDateString('en-US',
\* {weekday: 'long'}) names them, in lower case
Weekdays ==
    <<"sunday", "monday", "tuesday", "wednesday", "thursday", "friday", "saturday">>

\* the time zones the runtime knows, with their offset from UTC in minutes at the
\* instants below (none of them is near a daylight-saving switch); toLocale*String
\* throws a RangeError for any other time zone name
UtcOffset == ("America/New_York" :> (0 - 300)) @@ ("UTC" :> 0)

\* new Date(): an instant, as the weekday (0 is sunday) and the minute of the day in UTC
Instants ==
    { [day |-> 1, minute |-> 840],     \* monday 14:00 UTC, 09:00 in New York
      [day |-> 1, minute |-> 1320],    \* monday 22:00 UTC, 17:00 in New York
      [day |-> 1, minute |-> 1321],    \* monday 22:01 UTC, 17:01 in New York
      [day |-> 1, minute |-> 330],     \* monday 05:30 UTC, 00:30 in New York
      [day |-> 1, minute |-> 30],      \* monday 00:30 UTC, sunday 19:30 in New York
      [day |-> 6, minute |-> 900] }    \* saturday 15:00 UTC, 10:00 in New York

\* the wall clock of a time zone at an instant
LocalClock(instant, timezone) ==
    LET total == (instant.day * 1440 + instant.minute + UtcOffset[timezone]) % 10080
    IN  [day |-> total \div 1440, minute |-> total % 1440]

\* a number below 100 in two digits
TwoDigit(n) ==
    LET digit == <<"0", "1", "2", "3", "4", "5", "6", "7", "8", "9">>
    IN  <<digit[(n \div 10) + 1], digit[(n % 10) + 1]>>

\* how the runtime resolves hour12: false for the locale en-US, whose own hour
\* cycle is h12: to h23 (hours 00 to 23), or to h24 (hours 01 to 24), as the
\* editions of ECMA-402 before 2023 and the runtimes that follow them do
HourCycles == {"h23", "h24"}

\* toLocaleTimeString('en-US', {hour12: false, hour: '2-digit', minute: '2-digit',
\* timeZone}) for a minute of the local day: the characters of "HH:MM"
toLocaleTimeString(minute, hourCycle) ==
    LET h == minute \div 60
        hour == IF h = 0 /\ hourCycle = "h24" THEN 24 ELSE h
    IN  TwoDigit(hour) \o <<":">> \o TwoDigit(minute % 60)

\* the order of the UTF-16 code units of the characters of a time
CodeUnit(c) ==
    LET order == <<"0", "1", "2", "3", "4", "5", "6", "7", "8", "9", ":">>
    IN  CHOOSE i \in DOMAIN order : order[i] = c

\* a <= b on two strings: by the first code unit that differs, a prefix first
StringLeq(a, b) ==
    LET n == IF Len(a) < Len(b) THEN Len(a) ELSE Len(b)
        differ == {i \in 1..n : a[i] # b[i]}
    IN  IF differ = {} THEN Len(a) <= Len(b)
        ELSE LET k == CHOOSE i \in differ : \A j \in differ : i <= j
             IN  CodeUnit(a[k]) < CodeUnit(b[k])

\* a variant whose catch returns false
isBusinessHourFailClosed(timezone, schedule, instant, hourCycle) ==
    IF timezone \notin DOMAIN UtcOffset
    THEN FALSE
    ELSE LET local == LocalClock(instant, timezone)
             dayOfWeek == Weekdays[local.day + 1]
             currentTime == toLocaleTimeString(local.minute, hourCycle)
         IN  IF dayOfWeek \notin DOMAIN schedule \/ ~schedule[dayOfWeek].enabled
             THEN FALSE
             ELSE /\ StringLeq(Chars(schedule[dayOfWeek].start), currentTime)
                  /\ StringLeq(currentTime, Chars(schedule[dayOfWeek].end))

\* BusinessHours.isBusinessHour(timezone, schedule) at the instant new Date()
\* gives: formatting for a time zone the runtime does not know throws, and the
\* catch returns true
isBusinessHour(timezone, schedule, instant, hourCycle) ==
    IF timezone \notin DOMAIN UtcOffset
    THEN TRUE
    ELSE LET local == LocalClock(instant, timezone)
             dayOfWeek == Weekdays[local.day + 1]
             currentTime == toLocaleTimeString(local.minute, hourCycle)
         IN  IF dayOfWeek \notin DOMAIN schedule \/ ~schedule[dayOfWeek].enabled
             THEN FALSE
             ELSE /\ StringLeq(Chars(schedule[dayOfWeek].start), currentTime)
                  /\ StringLeq(currentTime, Chars(schedule[dayOfWeek].end))

\* time zone names a caller may pass: two the runtime knows, and one it does not
Timezones == {"America/New_York", "UTC", "Mars/Olympus_Mons"}

\* schedules a caller may pass: the default one; one with an entry for monday
\* only, open all day; one whose only enabled day is sunday
Schedules ==
    { DefaultSchedule,
      [monday |-> [start |-> "00:00", end |-> "23:59", enabled |-> TRUE]],
      [ sunday |-> [start |-> "10:00", end |-> "23:59", enabled |-> TRUE],
        monday |-> [start |-> "00:00", end |-> "23:59", enabled |-> FALSE] ] }

\* a call of BusinessHours.isBusinessHour by any caller
CheckBusinessHours(timezone, schedule, instant, hourCycle) ==
    /\ lastCall' = <<[ op |-> "isBusinessHour",
                       args |-> <<timezone, schedule, instant, hourCycle>>,
                       result |-> isBusinessHour(timezone, schedule, instant, hourCycle) ]>>
    /\ UNCHANGED <<customers, messages, botSettings, whatsappApi, procs, posts, putReq,
                   requests, now, nextId, nextWamid, delivered, settingsPuts, autoReplies,
                   calls, manual>>

----------------------------------------------------------------------------
(* Auto-reply decision: MessageProcessor.processAutoReply *)

\* a variant that greets a new customer before it looks at the business hours
SelectReplyNewFirst(settings, customer, open) ==
    IF customer.isNew THEN settings.autoReply.newCustomerMessage
    ELSE IF settings.businessHours.enabled /\ ~open
         THEN settings.autoReply.afterHoursMessage
         ELSE settings.autoReply.returningCustomerMessage

\* the template chosen at lines 123-140; open is the isBusinessHour of line 123,
\* which is read only when the business-hours check is enabled
SelectReply(settings, customer, open) ==
    IF settings.businessHours.enabled
    THEN IF ~open THEN settings.autoReply.afterHoursMessage
         ELSE IF customer.isNew THEN settings.autoReply.newCustomerMessage
         ELSE settings.autoReply.returningCustomerMessage
    ELSE IF customer.isNew THEN settings.autoReply.newCustomerMessage
         ELSE settings.autoReply.returningCustomerMessage

----------------------------------------------------------------------------
(* Rate limiter: MessageProcessor.ts, class RateLimiter *)

WindowMs == 60000
MaxRequests == 5

\* a variant whose window includes its start: time >= windowStart
RecentRequestsInclusive(existingRequests, time, windowMs) ==
    LET windowStart == time - windowMs
        InWindow(t) == t >= windowStart
    IN  SelectSeq(existingRequests, InWindow)

\* existingRequests.filter(time => time > windowStart)
RecentRequests(existingRequests, time, windowMs) ==
    LET windowStart == time - windowMs
        InWindow(t) == t > windowStart
    IN  SelectSeq(existingRequests, InWindow)

\* the limit check of RateLimiter.isAllowed
LimitExceeded(recentRequests, maxRequests) == Len(recentRequests) >= maxRequests

----------------------------------------------------------------------------
(* Inputs *)

PhoneA == "15550001"
PhoneB == "15550002"

\* webhook messages (WhatsAppMessage): timestamp in seconds, text absent for media
Payloads ==
    { [from |-> PhoneA, id |-> "wamid.in1", text |-> <<"Hi">>, timestamp |-> 1],
      [from |-> PhoneA, id |-> "wamid.in2", text |-> <<"Hi">>, timestamp |-> 2],
      [from |-> PhoneB, id |-> "wamid.in3", text |-> <<"free prize">>, timestamp |-> 1],
      [from |-> PhoneA, id |-> "wamid.in4", text |-> <<"OK">>, timestamp |-> 2] }

\* a burst of one sender: distinct messages, delivered in this order
BurstPayloads ==
    [k \in 1..BurstSize |->
        [from |-> PhoneA,
         id |-> <<"wamid.b1", "wamid.b2", "wamid.b3", "wamid.b4",
                  "wamid.b5", "wamid.b6", "wamid.b7", "wamid.b8">>[k],
         text |-> <<"Hi">>, timestamp |-> 1]]

\* the messages delivered while an operator writes to a customer: one of a
\* customer, and one whose sender field is empty
ManualPayloads ==
    { [from |-> PhoneA, id |-> "wamid.in1", text |-> <<"Hi">>, timestamp |-> 1],
      [from |-> "", id |-> "wamid.in5", text |-> <<"Hi">>, timestamp |-> 1] }

\* what an operator writes
ManualContents == {"Your order has shipped."}

InboundIds ==
    {m.id : m \in Payloads} \cup {BurstPayloads[k].id : k \in DOMAIN BurstPayloads}
        \cup {"wamid.w1", "wamid.w2", "wamid.w3", "wamid.w4"}
        \cup {m.id : m \in ManualPayloads}

\* the business hours a settings PUT carries: the check off, or on
BusinessHoursOff ==
    [enabled |-> FALSE, timezone |-> "America/New_York", schedule |-> DefaultSchedule]

BusinessHoursOn ==
    [enabled |-> TRUE, timezone |-> "America/New_York", schedule |-> DefaultSchedule]

\* bodies of the settings PUT (type 'general'): the settings page sends every
\* field, another client only some; a field that is absent is <<>> or ""
PutBodies ==
    { [isActive |-> <<TRUE>>, businessHours |-> <<BusinessHoursOff>>,
       accessToken |-> "EAAG", phoneNumberId |-> "1055", verifyToken |-> ""],
      [isActive |-> <<TRUE>>, businessHours |-> <<BusinessHoursOn>>,
       accessToken |-> "EAAG", phoneNumberId |-> "1055", verifyToken |-> ""],
      [isActive |-> <<FALSE>>, businessHours |-> <<BusinessHoursOff>>,
       accessToken |-> "EAAG", phoneNumberId |-> "1055", verifyToken |-> ""],
      [isActive |-> <<FALSE>>, businessHours |-> <<>>,
       accessToken |-> "", phoneNumberId |-> "", verifyToken |-> ""] }

\* status values a status event may carry; "deleted" is none of the valid ones
EventStatuses == {"sent", "delivered", "read", "failed", "deleted"}

\* a contact of a change: <<>> is a null entry of the contacts array
Contact(wa_id) == <<[wa_id |-> wa_id]>>

\* a change of a webhook payload; the changes of all entries are listed in the
\* order in which the two loops of the route visit them.  value is <<>> when the
\* change has none
Change(messages_, contacts_, statuses_) ==
    [ field |-> "messages",
      value |-> <<[messages |-> messages_, contacts |-> contacts_, statuses |-> statuses_]>> ]

\* a change that lacks the shape the route expects: destructuring its value throws
MalformedChange == [field |-> "messages", value |-> <<>>]

\* a change of another field, which the route skips
OtherChange == [field |-> "message_template_status_update", value |-> <<>>]

\* POST requests: the x-hub-signature-256 header ("" when absent) and the body,
\* whose json is <<>> when the text is not JSON and <<the changes>> otherwise.
\* "sha256=forged" is a signature that does not match the body.
Requests ==
    { [ signature |-> "", body |-> [json |-> <<>>] ],
      [ signature |-> "sha256=forged",
        body |-> [json |-> << <<Change(<<[from |-> PhoneA, id |-> "wamid.w1",
                                           text |-> <<"Hi">>, timestamp |-> 1]>>,
                                        <<>>, <<>>)>> >>] ],
      [ signature |-> "sha256=ok",
        body |-> [json |-> << <<Change(<<[from |-> PhoneA, id |-> "wamid.w2",
                                           text |-> <<"Hi">>, timestamp |-> 1],
                                          [from |-> PhoneB, id |-> "wamid.w3",
                                           text |-> <<"Hi">>, timestamp |-> 2]>>,
                                        <<Contact(PhoneB), <<>>>>,
                                        <<[id |-> "wamid.out1", status |-> "read"]>>)>> >>] ],
      [ signature |-> "",
        body |-> [json |-> << <<OtherChange,
                                 Change(<<[from |-> PhoneB, id |-> "wamid.w4",
                                           text |-> <<"Hi">>, timestamp |-> 1]>>,
                                        <<>>, <<>>),
                                 MalformedChange>> >>] ],
      [ signature |-> "sha256=ok",
        body |-> [json |-> << <<Change(<<>>, <<>>,
                                        <<[id |-> "wamid.out1", status |-> "delivered"],
                                          [id |-> "wamid.out1", status |-> "delivered"],
                                          [id |-> "wamid.unknown", status |-> "failed"]>>)>> >>] ] }

----------------------------------------------------------------------------
(* State after construction *)

NoMessage == [from |-> "", content |-> "", messageId |-> "", timestamp |-> 0]

IdleProc ==
    [ pc |-> "idle",
      msg |-> NoMessage,
      contacts |-> <<>>,
      customer |-> <<>>,
      found |-> <<>>,
      settings |-> <<>>,
      isBusinessHour |-> FALSE,
      replyMessage |-> "",
      autoReplySent |-> FALSE,
      result |-> <<>> ]

\* sendManualMessage has not been called
IdleManual ==
    [ pc |-> "none",
      customerId |-> 0,
      content |-> "",
      customer |-> <<>>,
      settings |-> <<>>,
      result |-> <<>> ]

\* a POST request that has not arrived
IdlePost ==
    [ pc |-> "none",
      request |-> [signature |-> "", body |-> [json |-> <<>>]],
      changes |-> <<>>,
      messages |-> <<>>,
      contacts |-> <<>>,
      statuses |-> <<>>,
      response |-> <<>>,
      handled |-> <<>>,
      failures |-> 0 ]

Init ==
    /\ customers = <<>>
    /\ messages = <<>>
    /\ botSettings = <<>>
    /\ whatsappApi = [accessToken |-> "", phoneNumberId |-> ""]
    /\ procs = [p \in Procs |-> IdleProc]
    /\ posts = [p \in Procs |-> IdlePost]
    /\ putReq = <<>>
    /\ requests = [ph \in Phones |-> <<>>]
    /\ now = 0
    /\ nextId = 0
    /\ nextWamid = 0
    /\ delivered = 0
    /\ settingsPuts = 0
    /\ autoReplies = [id \in InboundIds |-> 0]
    /\ calls = <<>>
    /\ lastCall = <<>>
    /\ manual = IdleManual

----------------------------------------------------------------------------
(* MessageProcessor.processIncomingMessage, one action per run between awaits *)

Others == <<posts, putReq, requests, now, settingsPuts, calls, lastCall, manual>>

\* lines 25-28 and 81: the call of processIncomingMessage(message, contacts) by
\* the webhook route: parse, then findOrCreateCustomer looks the sender up.  The
\* contacts are read only when no customer is found.
processIncomingMessage(p, message, contacts) ==
    /\ procs[p].pc \in {"idle", "done"}
    /\ LET msg == parseIncomingMessage(message)
           customer == findByPhoneNumber(customers, msg.from)
       IN  procs' = [procs EXCEPT ![p] =
                [IdleProc EXCEPT !.pc = IF customer = <<>> THEN "awaitFind" ELSE "awaitCustomer",
                                 !.msg = msg,
                                 !.contacts = IF customer = <<>> THEN contacts ELSE <<>>,
                                 !.customer = customer]]
    /\ delivered' = delivered + 1
    /\ UNCHANGED <<customers, messages, botSettings, whatsappApi, nextId, nextWamid,
                   autoReplies>>
    /\ UNCHANGED <<putReq, requests, now, settingsPuts, calls, lastCall, manual>>

\* a message that arrives without contacts, the request it came in left aside
Receive(p, message) ==
    /\ processIncomingMessage(p, message, <<>>)
    /\ UNCHANGED posts

\* line 85, contacts?.find(c => c.wa_id === phoneNumber): the callback reads
\* c.wa_id of every contact up to the first match, and throws a TypeError on a
\* contact that is null
ContactsFindThrows(contacts, phoneNumber) ==
    \E i \in DOMAIN contacts :
        /\ contacts[i] = <<>>
        /\ \A j \in 1..(i - 1) : contacts[j][1].wa_id # phoneNumber

\* lines 67-72: the catch of processIncomingMessage returns {success: false, error}
Failed(proc) ==
    [IdleProc EXCEPT !.pc = "done", !.msg = proc.msg,
                     !.result = <<[success |-> FALSE, autoReplySent |-> FALSE]>>]

\* lines 83-104: no customer was found at line 81, so one is created, unless
\* reading the contacts throws
CreateCustomer(p) ==
    /\ procs[p].pc = "awaitFind"
    /\ IF ContactsFindThrows(procs[p].contacts, procs[p].msg.from)
       THEN /\ procs' = [procs EXCEPT ![p] = Failed(procs[p])]
            /\ UNCHANGED <<customers, nextId>>
       ELSE LET c == NewCustomer(nextId + 1, procs[p].msg.from)
            IN  /\ customers' = Append(customers, c)
                /\ nextId' = nextId + 1
                /\ procs' = [procs EXCEPT ![p].customer = <<c>>,
                                          ![p].contacts = <<>>,
                                          ![p].pc = "awaitCustomer"]
    /\ UNCHANGED <<messages, botSettings, whatsappApi, nextWamid, delivered, autoReplies>>
    /\ UNCHANGED Others

\* lines 31-44: the incoming message is saved
SaveIncoming(p) ==
    /\ procs[p].pc = "awaitCustomer"
    /\ messages' = CreateMessage(messages, nextId + 1,
                       [ customerId |-> procs[p].customer[1].id,
                         messageId |-> procs[p].msg.messageId,
                         direction |-> "incoming",
                         content |-> procs[p].msg.content,
                         status |-> "delivered",
                         isAutoReply |-> FALSE,
                         timestamp |-> procs[p].msg.timestamp ], now)
    /\ nextId' = nextId + 1
    /\ procs' = [procs EXCEPT ![p].pc = "awaitSaveIncoming"]
    /\ UNCHANGED <<customers, botSettings, whatsappApi, nextWamid, delivered, autoReplies>>
    /\ UNCHANGED Others

\* lines 47-50: the message count of the customer read at line 28, plus one, is stored
UpdateCustomer(p) ==
    /\ procs[p].pc = "awaitSaveIncoming"
    /\ customers' = UpdateMessageCount(customers, procs[p].customer[1].id,
                                       procs[p].customer[1].messageCount + 1)
    /\ procs' = [procs EXCEPT ![p].pc = "awaitUpdate"]
    /\ UNCHANGED <<messages, botSettings, whatsappApi, nextId, nextWamid, delivered,
                   autoReplies>>
    /\ UNCHANGED Others

\* whatsapp.ts 106-133, markAsRead: false without credentials; with them, whether
\* the request was answered with an OK status, and false when fetch throws
MarkAsReadResults(api) == IF Configured(api) THEN BOOLEAN ELSE {FALSE}

\* a variant that gives the processing up when the message was not marked as read
AbortsUnlessMarkedRead(marked) == ~marked

\* line 53: the result of markAsRead is not looked at
AbortsAfterMarkAsRead(marked) == FALSE

\* lines 53-56 and 110: markAsRead settles, and processAutoReply reads the settings
GetSettings(p) ==
    /\ procs[p].pc = "awaitUpdate"
    /\ \E marked \in MarkAsReadResults(whatsappApi) :
          IF AbortsAfterMarkAsRead(marked)
          THEN /\ procs' = [procs EXCEPT ![p] = Failed(procs[p])]
               /\ UNCHANGED botSettings
          ELSE /\ botSettings' = SettingsAfterGet(botSettings)
               /\ procs' = [procs EXCEPT ![p].settings = SettingsAfterGet(botSettings),
                                         ![p].pc = "awaitSettings"]
    /\ UNCHANGED <<customers, messages, whatsappApi, nextId, nextWamid, delivered,
                   autoReplies>>
    /\ UNCHANGED Others

\* processIncomingMessage returns {success: true, autoReplySent}
Finished(proc, sent) ==
    [IdleProc EXCEPT !.pc = "done", !.msg = proc.msg,
                     !.result = <<[success |-> TRUE, autoReplySent |-> sent]>>]

\* a variant that marks a new customer as returning whether or not a reply was sent
MarksReturningAlways(autoReplySent, customer) == customer.isNew

\* line 59: autoReplySent && customer.isNew, for the customer read at line 28
MarksReturning(autoReplySent, customer) == autoReplySent /\ customer.isNew

\* lines 56-66 and database.ts 71: processAutoReply has returned autoReplySent;
\* markAsReturning, when it is called, looks the sender up, and updates the
\* customer it finds after its await
AfterProcessAutoReply(proc, autoReplySent, cs) ==
    IF MarksReturning(autoReplySent, proc.customer[1])
          /\ findByPhoneNumber(cs, proc.msg.from) # <<>>
    THEN [proc EXCEPT !.found = findByPhoneNumber(cs, proc.msg.from),
                      !.settings = <<>>,
                      !.isBusinessHour = FALSE,
                      !.replyMessage = "",
                      !.autoReplySent = autoReplySent,
                      !.pc = "awaitFindReturning"]
    ELSE Finished(proc, autoReplySent)

\* a variant that looks at the message content only
ReplySuppressedByContentOnly(settings, messageContent) ==
    ~shouldSendAutoReply(messageContent)

\* lines 111-118: processAutoReply returns false before it chooses a template
ReplySuppressed(settings, messageContent) ==
    ~settings.isActive \/ ~shouldSendAutoReply(messageContent)

\* lines 111-146: the reply is suppressed, or a template is chosen and sent.  The
\* instant new Date() gives inside isBusinessHour is an input of the decision.
DecideReply(p) ==
    /\ procs[p].pc = "awaitSettings"
    /\ LET settings == procs[p].settings[1]
           customer == procs[p].customer[1]
       IN  IF ReplySuppressed(settings, procs[p].msg.content)
           THEN /\ procs' = [procs EXCEPT ![p] =
                                 AfterProcessAutoReply(procs[p], FALSE, customers)]
                /\ UNCHANGED whatsappApi
           ELSE \E instant \in Instants : \E hourCycle \in HourCycles :
                  LET api == [accessToken |-> settings.accessToken,
                              phoneNumberId |-> settings.phoneNumberId]
                      open == /\ settings.businessHours.enabled
                              /\ isBusinessHour(settings.businessHours.timezone,
                                                settings.businessHours.schedule,
                                                instant, hourCycle)
                      reply == SelectReply(settings, customer, open)
                  IN  /\ whatsappApi' = api
                      /\ procs' = [procs EXCEPT ![p] =
                            IF Configured(api)
                            THEN [procs[p] EXCEPT !.pc = "awaitSend",
                                                  !.settings = <<>>,
                                                  !.isBusinessHour = open,
                                                  !.replyMessage = reply]
                            ELSE AfterProcessAutoReply(procs[p], FALSE, customers)]
    /\ UNCHANGED <<customers, messages, botSettings, nextId, nextWamid, delivered,
                   autoReplies>>
    /\ UNCHANGED Others

\* lines 146-166: the send succeeded and the reply is saved, or it failed
SendResult(p, ok) ==
    /\ procs[p].pc = "awaitSend"
    /\ IF ok
       THEN /\ nextWamid < Len(Wamids)
            /\ messages' = CreateMessage(messages, nextId + 1,
                               [ customerId |-> procs[p].customer[1].id,
                                 messageId |-> Wamids[nextWamid + 1],
                                 direction |-> "outgoing",
                                 content |-> procs[p].replyMessage,
                                 status |-> "sent",
                                 isAutoReply |-> TRUE,
                                 timestamp |-> now ], now)
            /\ nextId' = nextId + 1
            /\ nextWamid' = nextWamid + 1
            /\ autoReplies' = [autoReplies EXCEPT ![procs[p].msg.messageId] = @ + 1]
            /\ procs' = [procs EXCEPT ![p].pc = "awaitAutoReply",
                                      ![p].isBusinessHour = FALSE,
                                      ![p].replyMessage = "",
                                      ![p].autoReplySent = TRUE]
       ELSE /\ procs' = [procs EXCEPT ![p] = AfterProcessAutoReply(procs[p], FALSE, customers)]
            /\ UNCHANGED <<messages, nextId, nextWamid, autoReplies>>
    /\ UNCHANGED <<customers, botSettings, whatsappApi, delivered>>
    /\ UNCHANGED Others

\* lines 59-60 and database.ts 71: a reply was sent; markAsReturning looks the
\* sender up when the customer read at line 28 is new
AfterAutoReply(p) ==
    /\ procs[p].pc = "awaitAutoReply"
    /\ procs' = [procs EXCEPT ![p] = AfterProcessAutoReply(procs[p], TRUE, customers)]
    /\ UNCHANGED <<customers, messages, botSettings, whatsappApi, nextId, nextWamid,
                   delivered, autoReplies>>
    /\ UNCHANGED Others

\* database.ts 72-74: markAsReturning stores isNew = false on the customer it found
MarkAsReturning(p) ==
    /\ procs[p].pc = "awaitFindReturning"
    /\ customers' = UpdateIsNew(customers, procs[p].found[1].id)
    /\ procs' = [procs EXCEPT ![p] = Finished(procs[p], procs[p].autoReplySent)]
    /\ UNCHANGED <<messages, botSettings, whatsappApi, nextId, nextWamid, delivered,
                   autoReplies>>
    /\ UNCHANGED Others

\* line 244: the statuses processStatusUpdate takes over as they are
validStatuses == {"sent", "delivered", "read", "failed"}

\* line 245: any other status is stored as 'sent'
MessageStatus(status) == IF status \in validStatuses THEN status ELSE "sent"

\* MessageProcessor.processStatusUpdate, called by the webhook route
processStatusUpdate(messageId, status) ==
    /\ messages' = updateStatus(messages, messageId, MessageStatus(status))
    /\ UNCHANGED <<customers, botSettings, whatsappApi, procs, putReq, requests, now,
                   nextId, nextWamid, delivered, settingsPuts, autoReplies, calls,
                   lastCall, manual>>

\* a status event of its own, the request it came in left aside
ProcessStatusUpdate(messageId, status) ==
    /\ processStatusUpdate(messageId, status)
    /\ UNCHANGED posts

----------------------------------------------------------------------------
(* Webhook route: POST.  posts[p] is the request whose messages procs[p]      *)
(* processes; handled and failures record what the request handed to the      *)
(* processor and how many of its messages the processor reported as failed.   *)

\* WhatsAppAPI.verifySignature: false without a signature; with one, true
\* whatever the payload and the secret are
verifySignature(payload, signature, secret) ==
    IF signature = "" THEN FALSE ELSE TRUE

\* route.ts 41: the request is turned away
SignatureRejected(request) ==
    /\ request.signature # ""
    /\ ~verifySignature(request.body, request.signature, "webhook_secret")

\* route.ts 43
Unauthorized == [status |-> 401, error |-> "Invalid signature"]

\* route.ts 86
Acknowledged == [status |-> 200, error |-> ""]

\* a variant that reports a failure of the processing as a server error
ProcessingFailedAsServerError == [status |-> 500, error |-> "Processing failed"]

\* route.ts 92-95: the catch of the handler
ProcessingFailed == [status |-> 200, error |-> "Processing failed"]

\* the request is answered; its locals are gone
Respond(post, response) ==
    [post EXCEPT !.pc = "responded", !.changes = <<>>, !.messages = <<>>,
                 !.contacts = <<>>, !.statuses = <<>>, !.response = <<response>>]

\* route.ts 52-83: the loops, from where the request stands to the next event
\* it hands to the processor, to a change it cannot read, or to their end
RECURSIVE NextEvent(_)
NextEvent(post) ==
    IF post.messages # <<>>
    THEN [kind |-> "message", event |-> Head(post.messages),
          post |-> [post EXCEPT !.messages = Tail(@)]]
    ELSE IF post.statuses # <<>>
    THEN [kind |-> "status", event |-> Head(post.statuses),
          post |-> [post EXCEPT !.statuses = Tail(@)]]
    ELSE IF post.changes = <<>>
    THEN [kind |-> "end", event |-> <<>>, post |-> post]
    ELSE LET change == Head(post.changes)
             rest == [post EXCEPT !.changes = Tail(@), !.contacts = <<>>]
         IN  IF change.field # "messages" THEN NextEvent(rest)
             ELSE IF change.value = <<>>
             THEN [kind |-> "malformed", event |-> <<>>, post |-> rest]
             ELSE NextEvent([rest EXCEPT !.messages = change.value[1].messages,
                                         !.contacts = change.value[1].contacts,
                                         !.statuses = change.value[1].statuses])

AllButPosts == <<customers, messages, botSettings, whatsappApi, procs, putReq, requests,
                 now, nextId, nextWamid, delivered, settingsPuts, autoReplies, calls,
                 lastCall, manual>>

\* a variant that gives up the events left once one has failed
RemainingAfterAbortOnFailure(post, failed) ==
    IF failed THEN [post EXCEPT !.changes = <<>>, !.messages = <<>>, !.statuses = <<>>]
    ELSE post

\* route.ts 62-71: the result of processIncomingMessage is logged, and the loop
\* goes on with what is left whether the message failed or not
RemainingAfter(post, failed) == post

\* the handler runs on from `post` up to its next await or to its response
Run(p, post) ==
    LET next == NextEvent(post)
    IN  CASE next.kind = "message" ->
               LET message == next.event
               IN  /\ processIncomingMessage(p, message, next.post.contacts)
                   /\ posts' = [posts EXCEPT ![p] =
                         [next.post EXCEPT !.pc = "awaitMessage",
                                           !.handled = Append(@, message.id)]]
          [] next.kind = "status" ->
               LET status == next.event
               IN  /\ processStatusUpdate(status.id, status.status)
                   /\ posts' = [posts EXCEPT ![p] =
                         [next.post EXCEPT !.pc = "awaitStatus",
                                           !.handled = Append(@, status.id)]]
          [] next.kind = "malformed" ->
               /\ posts' = [posts EXCEPT ![p] = Respond(next.post, ProcessingFailed)]
               /\ UNCHANGED AllButPosts
          [] OTHER ->
               /\ posts' = [posts EXCEPT ![p] = Respond(next.post, Acknowledged)]
               /\ UNCHANGED AllButPosts

\* route.ts 37: a request arrives and its body is read
PostRequest(p, request) ==
    /\ posts[p].pc = "none"
    /\ posts' = [posts EXCEPT ![p] = [IdlePost EXCEPT !.pc = "awaitText",
                                                      !.request = request]]
    /\ UNCHANGED AllButPosts

\* route.ts 38-62: the signature is verified and the body parsed
PostBody(p) ==
    /\ posts[p].pc = "awaitText"
    /\ LET request == posts[p].request
       IN  IF SignatureRejected(request)
           THEN /\ posts' = [posts EXCEPT ![p] = Respond(posts[p], Unauthorized)]
                /\ UNCHANGED AllButPosts
           ELSE IF request.body.json = <<>>
           THEN /\ posts' = [posts EXCEPT ![p] = Respond(posts[p], ProcessingFailed)]
                /\ UNCHANGED AllButPosts
           ELSE Run(p, [posts[p] EXCEPT !.changes = request.body.json[1]])

\* route.ts 62-83: processIncomingMessage or processStatusUpdate has returned
PostContinue(p) ==
    \/ /\ posts[p].pc = "awaitMessage"
       /\ procs[p].pc = "done"
       /\ LET failed == ~procs[p].result[1].success
          IN  Run(p, RemainingAfter([posts[p] EXCEPT !.failures = IF failed THEN @ + 1 ELSE @],
                                    failed))
    \/ /\ posts[p].pc = "awaitStatus"
       /\ Run(p, posts[p])

----------------------------------------------------------------------------
(* MessageProcessor.sendManualMessage, one action per run between awaits *)

ManualOthers == <<procs, posts, putReq, requests, now, delivered, settingsPuts,
                  autoReplies, calls, lastCall>>

\* what sendManualMessage returns; error is "" when there is none
ManualResult(success, error) == <<[success |-> success, error |-> error]>>

\* lines 186-195: the call, with any customer id; the customer is looked up by the
\* phone number ''
sendManualMessage(customerId, content) ==
    /\ manual.pc = "none"
    /\ manual' = [IdleManual EXCEPT !.pc = "awaitFind",
                                    !.customerId = customerId,
                                    !.content = content,
                                    !.customer = findByPhoneNumber(customers, "")]
    /\ UNCHANGED <<customers, messages, botSettings, whatsappApi, nextId, nextWamid>>
    /\ UNCHANGED ManualOthers

\* lines 196-200: no customer, no message; otherwise the settings are read
ManualFound ==
    /\ manual.pc = "awaitFind"
    /\ IF manual.customer = <<>>
       THEN /\ manual' = [manual EXCEPT !.pc = "done",
                                        !.result = ManualResult(FALSE, "Customer not found")]
            /\ UNCHANGED botSettings
       ELSE /\ botSettings' = SettingsAfterGet(botSettings)
            /\ manual' = [manual EXCEPT !.pc = "awaitSettings",
                                        !.settings = SettingsAfterGet(botSettings)]
    /\ UNCHANGED <<customers, messages, whatsappApi, nextId, nextWamid>>
    /\ UNCHANGED ManualOthers

\* lines 201-209: a client is made from the settings read, and the message is sent
\* to the phone number of the customer found; sendMessage returns null without
\* credentials
ManualSend ==
    /\ manual.pc = "awaitSettings"
    /\ LET api == [accessToken |-> manual.settings[1].accessToken,
                   phoneNumberId |-> manual.settings[1].phoneNumberId]
       IN  /\ whatsappApi' = api
           /\ manual' = IF Configured(api)
                        THEN [manual EXCEPT !.pc = "awaitSend", !.settings = <<>>]
                        ELSE [manual EXCEPT
                                 !.pc = "done", !.settings = <<>>,
                                 !.result = ManualResult(FALSE,
                                     "Failed to send message via WhatsApp API")]
    /\ UNCHANGED <<customers, messages, botSettings, nextId, nextWamid>>
    /\ UNCHANGED ManualOthers

\* lines 211-231: the send succeeded and the message is stored under the customer
\* id of the call, or it failed
ManualSendResult(ok) ==
    /\ manual.pc = "awaitSend"
    /\ IF ok
       THEN /\ nextWamid < Len(Wamids)
            /\ messages' = CreateMessage(messages, nextId + 1,
                               [ customerId |-> manual.customerId,
                                 messageId |-> Wamids[nextWamid + 1],
                                 direction |-> "outgoing",
                                 content |-> manual.content,
                                 status |-> "sent",
                                 isAutoReply |-> FALSE,
                                 timestamp |-> now ], now)
            /\ nextId' = nextId + 1
            /\ nextWamid' = nextWamid + 1
            /\ manual' = [manual EXCEPT !.pc = "done", !.result = ManualResult(TRUE, "")]
       ELSE /\ manual' = [manual EXCEPT
                              !.pc = "done",
                              !.result = ManualResult(FALSE,
                                  "Failed to send message via WhatsApp API")]
            /\ UNCHANGED <<messages, nextId, nextWamid>>
    /\ UNCHANGED <<customers, botSettings, whatsappApi>>
    /\ UNCHANGED ManualOthers

----------------------------------------------------------------------------
(* The list queries of MessageDatabase *)

\* database.ts 110-114: findRecent(limit) answers at once
findRecent(limit) ==
    /\ messages' = StoredAfterFindRecent(messages)
    /\ lastCall' = <<[ op |-> "findRecent",
                       args |-> <<limit>>,
                       result |-> FindRecentResult(messages, limit) ]>>
    /\ UNCHANGED <<customers, botSettings, whatsappApi, procs, posts, putReq, requests,
                   now, nextId, nextWamid, delivered, settingsPuts, autoReplies, calls,
                   manual>>

\* database.ts 91-108: findByCustomerId(customerId, {limit, offset}) answers at once
findByCustomerId(customerId, offset, limit) ==
    /\ lastCall' = <<[ op |-> "findByCustomerId",
                       args |-> <<customerId, offset, limit>>,
                       result |-> FindByCustomerIdResult(messages, customerId, offset,
                                                         limit) ]>>
    /\ UNCHANGED <<customers, messages, botSettings, whatsappApi, procs, posts, putReq,
                   requests, now, nextId, nextWamid, delivered, settingsPuts, autoReplies,
                   calls, manual>>

----------------------------------------------------------------------------
(* Webhook route: GET, the verification request of the channel *)

\* the query parameters hub.mode, hub.verify_token and hub.challenge
VerifyModes == {"subscribe", "unsubscribe", ""}
VerifyTokens == {"default_verify_token", "rotated_token", "second_token", "guess"}
Challenges == {"1158201444", "7"}

\* lines 21-27: the answer to a verification request
VerifyResponse(mode, token, challenge) ==
    IF mode = "subscribe" /\ token = "default_verify_token"
    THEN [status |-> 200, body |-> challenge]
    ELSE [status |-> 403, body |-> "Verification failed"]

\* route.ts 11-32: GET answers without an await and without reading a store
VerifyWebhook(mode, token, challenge) ==
    /\ lastCall' = <<[ op |-> "GET",
                       args |-> <<mode, token, challenge>>,
                       result |-> VerifyResponse(mode, token, challenge) ]>>
    /\ UNCHANGED <<customers, messages, botSettings, whatsappApi, procs, posts, putReq,
                   requests, now, nextId, nextWamid, delivered, settingsPuts, autoReplies,
                   calls, manual>>

----------------------------------------------------------------------------
(* Settings route: PUT, type 'general' *)

\* lines 43-49: the fields of the body that are taken over
ApplyUpdates(current, updates) ==
    [current EXCEPT
        !.isActive = IF updates.isActive # <<>> THEN updates.isActive[1] ELSE @,
        !.businessHours = IF updates.businessHours # <<>> THEN updates.businessHours[1] ELSE @,
        !.accessToken = IF updates.accessToken # "" THEN updates.accessToken ELSE @,
        !.phoneNumberId = IF updates.phoneNumberId # "" THEN updates.phoneNumberId ELSE @,
        !.verifyToken = IF updates.verifyToken # "" THEN updates.verifyToken ELSE @]

\* route.ts 41-51 and database.ts 191: SettingsDatabase.update reads the settings
PutSettings(body) ==
    /\ putReq = <<>>
    /\ putReq' = <<body>>
    /\ botSettings' = SettingsAfterGet(botSettings)
    /\ settingsPuts' = settingsPuts + 1
    /\ UNCHANGED <<customers, messages, whatsappApi, procs, posts, requests, now, nextId,
                   nextWamid, delivered, autoReplies, calls, lastCall, manual>>

\* database.ts 192-197: the settings are replaced by the updated copy
StoreSettings ==
    /\ putReq # <<>>
    /\ botSettings' = <<ApplyUpdates(botSettings[1], putReq[1])>>
    /\ putReq' = <<>>
    /\ UNCHANGED <<customers, messages, whatsappApi, procs, posts, requests, now, nextId,
                   nextWamid, delivered, settingsPuts, autoReplies, calls,
                   lastCall, manual>>

----------------------------------------------------------------------------
(* RateLimiter.isAllowed(phoneNumber) with the default window and limit *)

isAllowed(phoneNumber) ==
    LET recentRequests == RecentRequests(requests[phoneNumber], now, WindowMs)
        allowed == ~LimitExceeded(recentRequests, MaxRequests)
    IN  /\ requests' = IF allowed
                       THEN [requests EXCEPT ![phoneNumber] = Append(recentRequests, now)]
                       ELSE requests
        /\ calls' = Append(calls, [ phoneNumber |-> phoneNumber, time |-> now,
                                    allowed |-> allowed,
                                    tracked |-> requests[phoneNumber] ])
        /\ UNCHANGED <<customers, messages, botSettings, whatsappApi, procs, posts, putReq,
                       now, nextId, nextWamid, delivered, settingsPuts, autoReplies,
                       lastCall, manual>>

----------------------------------------------------------------------------
(* The clock *)

Tick(t) ==
    /\ t > now
    /\ now' = t
    /\ UNCHANGED <<customers, messages, botSettings, whatsappApi, procs, posts, putReq,
                   requests, nextId, nextWamid, delivered, settingsPuts, autoReplies, calls,
                   lastCall, manual>>

----------------------------------------------------------------------------
(* Specifications *)

\* channel message ids a status event may name: those of the replies sent, and one
\* that was never recorded
StatusIds ==
    {messages[i].messageId : i \in {j \in DOMAIN messages : messages[j].direction = "outgoing"}}
        \cup {"wamid.unknown"}

Step(p) ==
    \/ CreateCustomer(p)
    \/ SaveIncoming(p)
    \/ UpdateCustomer(p)
    \/ GetSettings(p)
    \/ DecideReply(p)
    \/ \E ok \in BOOLEAN : SendResult(p, ok)
    \/ AfterAutoReply(p)
    \/ MarkAsReturning(p)

\* concurrent webhook deliveries of one message each, and settings updates
Next ==
    \/ \E p \in Procs : \E m \in Payloads : procs[p].pc = "idle" /\ Receive(p, m)
    \/ \E p \in Procs : Step(p)
    \/ \E b \in PutBodies : settingsPuts < MaxSettingsPuts /\ PutSettings(b)
    \/ StoreSettings

Spec == Init /\ [][Next]_vars

\* the same, with the status events of the replies sent
NextStatus ==
    \/ Next
    \/ \E id \in StatusIds : \E st \in EventStatuses : ProcessStatusUpdate(id, st)

SpecStatus == Init /\ [][NextStatus]_vars

\* one sender's burst in one delivery, whose messages are processed one after
\* the other (webhook route.ts, lines 59-71)
NextBurst ==
    \/ delivered < BurstSize /\ Receive("p1", BurstPayloads[delivered + 1])
    \/ Step("p1")
    \/ \E b \in PutBodies : settingsPuts < MaxSettingsPuts /\ PutSettings(b)
    \/ StoreSettings
    \/ \E t \in BurstTimes : Tick(t)

SpecBurst == Init /\ [][NextBurst]_vars

\* the settings updates that configure the bot: active, with credentials, and
\* with no business-hours check
ConfiguringBodies ==
    {b \in PutBodies : /\ b.isActive = <<TRUE>>
                       /\ b.businessHours = <<BusinessHoursOff>>
                       /\ b.accessToken # ""
                       /\ b.phoneNumberId # ""}

\* webhook POST requests, each with the events of its body, while the bot is
\* being configured
NextWebhook ==
    \/ \E p \in Procs : \E request \in Requests : PostRequest(p, request)
    \/ \E p \in Procs : PostBody(p)
    \/ \E p \in Procs : PostContinue(p)
    \/ \E p \in Procs : Step(p)
    \/ \E b \in ConfiguringBodies : settingsPuts < MaxSettingsPuts /\ PutSettings(b)
    \/ StoreSettings

SpecWebhook == Init /\ [][NextWebhook]_vars

\* calls of the rate limiter at any times
NextRate ==
    \/ \E ph \in Phones : Len(calls) < MaxCalls /\ isAllowed(ph)
    \/ \E t \in Times : Tick(t)

SpecRate == Init /\ [][NextRate]_vars

\* calls of BusinessHours.isBusinessHour with any time zone name and schedule, at
\* any instant
NextHours ==
    \E timezone \in Timezones : \E schedule \in Schedules :
        \E instant \in Instants : \E hourCycle \in HourCycles :
            CheckBusinessHours(timezone, schedule, instant, hourCycle)

SpecHours == Init /\ [][NextHours]_vars

\* the settings updates that switch the business-hours check on, with a time zone
\* name the runtime knows or with one it does not
HoursBodies ==
    { [isActive |-> <<TRUE>>, businessHours |-> <<hours>>,
       accessToken |-> "EAAG", phoneNumberId |-> "1055", verifyToken |-> ""] :
          hours \in {BusinessHoursOn,
                     [BusinessHoursOn EXCEPT !.timezone = "Mars/Olympus_Mons"]} }

\* the messages of one sender
HoursPayloads == {m \in Payloads : m.from = PhoneA /\ m.text = <<"Hi">>}

\* concurrent webhook deliveries while the business-hours check is being set up
NextTimezone ==
    \/ \E p \in Procs : \E m \in HoursPayloads : procs[p].pc = "idle" /\ Receive(p, m)
    \/ \E p \in Procs : Step(p)
    \/ \E b \in HoursBodies : settingsPuts < MaxSettingsPuts /\ PutSettings(b)
    \/ StoreSettings

SpecTimezone == Init /\ [][NextTimezone]_vars

\* the settings updates that change the verify token only
TokenBodies ==
    { [isActive |-> <<>>, businessHours |-> <<>>, accessToken |-> "",
       phoneNumberId |-> "", verifyToken |-> token] :
          token \in {"rotated_token", "second_token"} }

\* verification requests while the verify token is being changed
NextVerify ==
    \/ \E mode \in VerifyModes : \E token \in VerifyTokens : \E challenge \in Challenges :
          VerifyWebhook(mode, token, challenge)
    \/ \E b \in TokenBodies : settingsPuts < MaxSettingsPuts /\ PutSettings(b)
    \/ StoreSettings

SpecVerify == Init /\ [][NextVerify]_vars

\* the customer ids an operator may name: those stored, and one that is not
ManualCustomerIds == {customers[i].id : i \in DOMAIN customers} \cup {0}

\* channel message ids of the stored messages, and one that was never recorded
StoredIds == {messages[i].messageId : i \in DOMAIN messages} \cup {"wamid.unknown"}

\* one webhook delivery, its status events, and one message of an operator
NextManual ==
    \/ \E m \in ManualPayloads : procs["p1"].pc = "idle" /\ Receive("p1", m)
    \/ Step("p1")
    \/ \E b \in ConfiguringBodies : settingsPuts < MaxSettingsPuts /\ PutSettings(b)
    \/ StoreSettings
    \/ \E id \in StoredIds : \E st \in {"read", "failed"} : ProcessStatusUpdate(id, st)
    \/ \E id \in ManualCustomerIds : \E content \in ManualContents :
          sendManualMessage(id, content)
    \/ ManualFound
    \/ ManualSend
    \/ \E ok \in BOOLEAN : ManualSendResult(ok)

SpecManual == Init /\ [][NextManual]_vars

\* the messages of one sender, at two times
LedgerPayloads == {m \in Payloads : m.id \in {"wamid.in1", "wamid.in2"}}

\* the limits and offsets of a list query
Limits == {1, 50}
Offsets == {0, 1}

\* concurrent webhook deliveries before the bot has credentials, status events of
\* the stored messages, and the list queries
NextLedger ==
    \/ \E p \in Procs : \E m \in LedgerPayloads : procs[p].pc = "idle" /\ Receive(p, m)
    \/ \E p \in Procs : CreateCustomer(p)
    \/ \E p \in Procs : SaveIncoming(p)
    \/ \E p \in Procs : UpdateCustomer(p)
    \/ \E p \in Procs : GetSettings(p)
    \/ \E p \in Procs : DecideReply(p)
    \/ \E id \in StoredIds : ProcessStatusUpdate(id, "read")
    \/ \E limit \in Limits : findRecent(limit)
    \/ \E customerId \in ManualCustomerIds : \E offset \in Offsets : \E limit \in Limits :
          findByCustomerId(customerId, offset, limit)

SpecLedger == Init /\ [][NextLedger]_vars

----------------------------------------------------------------------------
(* Claims *)

Incoming(m) == m.direction = "incoming"
AutoReply(m) == m.direction = "outgoing" /\ m.isAutoReply

\* C1: the customer store holds at most one Customer per phone number, whatever
\* the interleaving of the processIncomingMessage invocations.
C1_OneCustomerPerPhone ==
    \A i, j \in DOMAIN customers :
        customers[i].phoneNumber = customers[j].phoneNumber => i = j

\* C2: no two Message records share the same (channel message id, direction)
\* pair: a redelivered inbound message does not grow the ledger.
C2_UniqueChannelIdPerDirection ==
    \A i, j \in DOMAIN messages :
        (/\ messages[i].messageId = messages[j].messageId
         /\ messages[i].direction = messages[j].direction) => i = j

\* C3: at most one auto-reply is sent for one inbound channel message id,
\* redeliveries included.
C3_AtMostOneReplyPerInbound == \A id \in InboundIds : autoReplies[id] <= 1

StatusRank(st) ==
    CASE st = "pending" -> 0 [] st = "sent" -> 1 [] st = "delivered" -> 2
      [] st = "read" -> 3 [] OTHER -> 4

\* the order pending < sent < delivered < read, with failed terminal
NoRegress(old, new) ==
    IF old = "failed" THEN new = "failed"
    ELSE new = "failed" \/ StatusRank(new) >= StatusRank(old)

\* C4: the status of a stored message never moves backward in the order
\* pending < sent < delivered < read, failed being terminal.
C4_StatusNeverRegresses ==
    [][\A m \in Range(messages) : \A n \in Range(messages') :
           m.id = n.id => NoRegress(m.status, n.status)]_vars

\* C5: a dispatched reply is the after-hours template when the business-hours
\* check is enabled and finds the business closed, whatever isNew is; otherwise
\* the new-customer template for a new customer and the returning-customer
\* template for any other; it is never the fallback template.
C5_TemplatePrecedence ==
    [][\A p \in Procs :
         (procs[p].pc = "awaitSettings" /\ procs'[p].pc = "awaitSend") =>
            LET settings == procs[p].settings[1]
                closed == settings.businessHours.enabled /\ ~procs'[p].isBusinessHour
                reply == procs'[p].replyMessage
            IN  /\ closed => reply = settings.autoReply.afterHoursMessage
                /\ (~closed /\ procs[p].customer[1].isNew) =>
                       reply = settings.autoReply.newCustomerMessage
                /\ (~closed /\ ~procs[p].customer[1].isNew) =>
                       reply = settings.autoReply.returningCustomerMessage
                /\ reply # settings.autoReply.fallbackMessage]_vars

\* C5 witness: an after-hours reply is on its way to a customer who is new
C5_Witness ==
    \E p \in Procs :
        /\ procs[p].pc = "awaitSend"
        /\ procs[p].customer[1].isNew
        /\ procs[p].replyMessage = DefaultSettings.autoReply.afterHoursMessage

\* C6: a customer whose isNew is false has a recorded outgoing auto-reply.
C6_ReturningHasReply ==
    \A i \in DOMAIN customers :
        ~customers[i].isNew =>
            \E j \in DOMAIN messages :
                messages[j].customerId = customers[i].id /\ AutoReply(messages[j])

\* the sender of a stored message: the phone number of its customer
SenderOf(m) ==
    LET c == CHOOSE c \in Range(customers) : c.id = m.customerId IN c.phoneNumber

\* C7: of one sender, at most 5 messages received inside a 60-second window are
\* recorded: the messages beyond the fifth create no Message record.
C7_RateLimitGate ==
    \A m \in Range(messages) :
        Incoming(m) =>
            Cardinality({n \in Range(messages) :
                            /\ Incoming(n)
                            /\ SenderOf(n) = SenderOf(m)
                            /\ n.createdAt > m.createdAt - WindowMs
                            /\ n.createdAt <= m.createdAt}) <= MaxRequests

\* the accepted calls of a sender among the first k calls, inside the window
\* that ends at time t
AcceptedInWindow(phoneNumber, k, t) ==
    {i \in 1..k : /\ calls[i].phoneNumber = phoneNumber
                  /\ calls[i].allowed
                  /\ calls[i].time > t - WindowMs
                  /\ calls[i].time <= t}

\* C8: isAllowed accepts a call exactly when fewer than 5 calls of the sender
\* were accepted inside the 60 s before it, so the sixth call inside a window is
\* rejected; a call made more than 60 s after the oldest tracked accepted call is
\* accepted; and no 60 s window ever holds more than 5 accepted calls of a sender.
C8_SlidingWindow ==
    \A k \in DOMAIN calls :
        LET c == calls[k]
        IN  /\ c.allowed <=>
                  Cardinality(AcceptedInWindow(c.phoneNumber, k - 1, c.time)) < MaxRequests
            /\ (c.tracked # <<>> /\ c.time - c.tracked[1] > WindowMs) => c.allowed
            /\ Cardinality(AcceptedInWindow(c.phoneNumber, k, c.time)) <= MaxRequests

\* C8 witness: a sender's sixth call inside one window was rejected and a later
\* call, after the window had passed, was accepted
C8_Witness ==
    \E j, k \in DOMAIN calls :
        /\ j < k
        /\ calls[j].phoneNumber = calls[k].phoneNumber
        /\ ~calls[j].allowed
        /\ Len(calls[j].tracked) = MaxRequests
        /\ calls[k].allowed
        /\ calls[k].time - calls[j].tracked[1] > WindowMs
        /\ calls[k].tracked # <<>>

\* two inbound messages of one sender with the same body and different ids
RepeatedPairs ==
    {pair \in Payloads \X Payloads :
        /\ pair[1].id # pair[2].id
        /\ pair[1].from = pair[2].from
        /\ parseIncomingMessage(pair[1]).content = parseIncomingMessage(pair[2]).content}

\* C9: of two messages of one sender with the same body, at most one is
\* answered with an auto-reply.
C9_RepeatedBodyOneReply ==
    \A pair \in RepeatedPairs :
        ~(autoReplies[pair[1].id] >= 1 /\ autoReplies[pair[2].id] >= 1)

\* C10: an inbound message whose content the spam pattern check flags never
\* triggers an auto-reply.
C10_SpamNeverReplied ==
    \A m \in Payloads :
        HasSpamPattern(parseIncomingMessage(m).content) => autoReplies[m.id] = 0

\* the inbound message of p is stored as an incoming Message of p's customer
IncomingRecorded(proc) ==
    \E m \in Range(messages) :
        /\ Incoming(m)
        /\ m.messageId = proc.msg.messageId
        /\ m.customerId = proc.customer[1].id

\* the customer of p is stored with at least one message counted
ActivityRecorded(proc) ==
    \E c \in Range(customers) : c.id = proc.customer[1].id /\ c.messageCount >= 1

\* processAutoReply is over without a reply: nothing was stored or sent in the
\* step, the invocation returns {success: true, autoReplySent: false}, and the
\* inbound message is on record
EndsWithoutReply(p) ==
    /\ procs'[p].pc = "done"
    /\ procs'[p].result = <<[success |-> TRUE, autoReplySent |-> FALSE]>>
    /\ messages' = messages
    /\ customers' = customers
    /\ autoReplies' = autoReplies
    /\ nextWamid' = nextWamid
    /\ IncomingRecorded(procs[p])
    /\ ActivityRecorded(procs[p])

\* the pcs at which a reply is being sent or was sent
ReplyPcs == {"awaitSend", "awaitAutoReply", "awaitFindReturning"}

\* the trimmed body is, as a whole and whatever its case, one of the
\* acknowledgement words, or is one of the acknowledgement emoji
IsAcknowledgement(content) ==
    LET t == Trim(Chars(content))
    IN  ToLower(t) \in SkipWords \/ t \in SkipEmoji

\* C11: an inbound message whose trimmed body wholly matches a skip-reply
\* pattern ("OK", " thanks ") is stored as an incoming Message and counted on
\* its customer, and its processing ends without a reply: no send, no outgoing
\* Message, no change of any customer's isNew, autoReplySent = false.
C11_AcknowledgementNotAnswered ==
    /\ [](/\ \A b \in {"OK", " thanks "} : ~shouldSendAutoReply(b)
          /\ \A m \in Payloads :
                IsAcknowledgement(parseIncomingMessage(m).content) => autoReplies[m.id] = 0
          /\ \A p \in Procs :
                IsAcknowledgement(procs[p].msg.content) => procs[p].pc \notin ReplyPcs)
    /\ [][\A p \in Procs :
            (/\ IsAcknowledgement(procs[p].msg.content)
             /\ procs[p].pc = "awaitSettings"
             /\ procs'[p] # procs[p]) => EndsWithoutReply(p)]_vars

\* C11 witness: "OK" from a customer who is still new has been processed while
\* the bot is active and its credentials are set
C11_Witness ==
    \E p \in Procs :
        /\ procs[p].pc = "done"
        /\ IsAcknowledgement(procs[p].msg.content)
        /\ procs[p].result = <<[success |-> TRUE, autoReplySent |-> FALSE]>>
        /\ botSettings # <<>>
        /\ botSettings[1].isActive
        /\ Configured(botSettings[1])
        /\ \E c \in Range(customers) :
              c.phoneNumber = procs[p].msg.from /\ c.isNew /\ c.messageCount >= 1

\* C12: when the settings an invocation reads have isActive = false, its
\* processing ends without a reply (no send, no outgoing Message, no new
\* WhatsAppAPI client), and the inbound message is on record as an incoming
\* Message with its customer's activity counted.
C12_InactiveBotNeverReplies ==
    [][\A p \in Procs :
          (/\ procs[p].pc = "awaitSettings"
           /\ ~procs[p].settings[1].isActive
           /\ procs'[p] # procs[p]) =>
              /\ EndsWithoutReply(p)
              /\ whatsappApi' = whatsappApi]_vars

\* C12 witness: "Hi" is recorded and counted, and processAutoReply has read
\* settings that are inactive and carry credentials
C12_Witness ==
    \E p \in Procs :
        /\ procs[p].pc = "awaitSettings"
        /\ ~procs[p].settings[1].isActive
        /\ Configured(procs[p].settings[1])
        /\ shouldSendAutoReply(procs[p].msg.content)
        /\ IncomingRecorded(procs[p])
        /\ ActivityRecorded(procs[p])

\* p takes the step in which its dispatch fails: the credentials it read are
\* unset, or the send it waited for was not accepted (transport error, non-OK
\* response, or the timeout of fetch, all of which sendMessage turns into null)
DispatchFails(p) ==
    /\ procs'[p] # procs[p]
    /\ \/ /\ procs[p].pc = "awaitSettings"
          /\ procs[p].settings[1].isActive
          /\ shouldSendAutoReply(procs[p].msg.content)
          /\ ~Configured(procs[p].settings[1])
       \/ /\ procs[p].pc = "awaitSend"
          /\ autoReplies' = autoReplies

\* C13: when the dispatch of a reply does not succeed, the inbound message stays
\* on record as incoming, no outgoing Message is stored, no customer's isNew
\* changes, and processIncomingMessage returns success with autoReplySent = false.
C13_FailedDispatchLeavesInbound ==
    [][\A p \in Procs : DispatchFails(p) => EndsWithoutReply(p)]_vars

\* C13 witness: the only message processed so far is "Hi" of a new customer; a
\* client with credentials was built for its reply, and it ended without one
C13_Witness ==
    \E p \in Procs :
        /\ procs[p].pc = "done"
        /\ procs[p].result = <<[success |-> TRUE, autoReplySent |-> FALSE]>>
        /\ \A q \in Procs \ {p} : procs[q].pc = "idle"
        /\ Configured(whatsappApi)
        /\ \A m \in Range(messages) : Incoming(m)
        /\ \E c \in Range(customers) : c.phoneNumber = procs[p].msg.from /\ c.isNew

\* the step is one of request p: of its handler or of the processor it called
ActsIn(p) == posts'[p] # posts[p] \/ procs'[p] # procs[p]

\* the step stores nothing: no Customer or Message is added, and no stored
\* customer or message changes
NothingPersisted ==
    /\ customers' = customers
    /\ messages' = messages

\* the signature header is present and is not the signature of the body
InvalidSignature(request) == request.signature \notin {"", "sha256=ok"}

\* C14: a request whose signature is invalid is answered 401 and nothing of it
\* is processed: no step of the request stores or changes a Customer or Message.
C14_InvalidSignatureRejected ==
    /\ [](\A p \in Procs :
             (InvalidSignature(posts[p].request) /\ posts[p].pc = "responded") =>
                 posts[p].response = <<Unauthorized>>)
    /\ [][\A p \in Procs :
             (InvalidSignature(posts[p].request) /\ ActsIn(p)) => NothingPersisted]_vars

\* a step of p is possible
CanStep(p) == ENABLED (PostBody(p) \/ PostContinue(p) \/ Step(p))

\* C15: a request that is not turned away for its signature is answered 200,
\* whether its body parses or not and whether the processing of its events
\* fails or not; until it is answered, its handler can always go on.
C15_AlwaysAcknowledged ==
    \A p \in Procs :
        /\ (posts[p].pc = "responded" /\ posts[p].response # <<Unauthorized>>) =>
               posts[p].response[1].status = 200
        /\ posts[p].pc \notin {"none", "responded"} => CanStep(p)

\* C15 witness: a request whose body is not JSON and a request one of whose
\* messages failed in the processor have both been answered 200
C15_Witness ==
    \E p, q \in Procs :
        /\ posts[p].pc = "responded"
        /\ posts[p].request.body.json = <<>>
        /\ posts[p].response[1].status = 200
        /\ posts[q].pc = "responded"
        /\ posts[q].failures >= 1
        /\ posts[q].response[1].status = 200

\* the payload is malformed: the body is not JSON, or one of its changes lacks
\* the value the route reads
Malformed(request) ==
    \/ request.body.json = <<>>
    \/ \E i \in DOMAIN request.body.json[1] :
          request.body.json[1][i] = MalformedChange

\* C16: a request with a malformed payload is never persisted: no step of it
\* adds a Customer or a Message or changes a stored one, wherever in the
\* payload the malformed part is.
C16_MalformedNeverPersisted ==
    [][\A p \in Procs :
          (posts[p].pc # "none" /\ Malformed(posts[p].request) /\ ActsIn(p)) =>
              NothingPersisted]_vars

\* the channel ids of a list of message or status events
Ids(events) == [i \in DOMAIN events |-> events[i].id]

\* the events of a list of changes, in the order of the payload, up to its end
\* or to the first change that cannot be read
RECURSIVE EventsOf(_)
EventsOf(changes) ==
    IF changes = <<>> THEN <<>>
    ELSE LET change == Head(changes)
         IN  IF change.field # "messages" THEN EventsOf(Tail(changes))
             ELSE IF change.value = <<>> THEN <<>>
             ELSE Ids(change.value[1].messages) \o Ids(change.value[1].statuses)
                      \o EventsOf(Tail(changes))

\* the events a request has not handed to the processor yet
Remaining(post) == Ids(post.messages) \o Ids(post.statuses) \o EventsOf(post.changes)

\* C17: the events of a request are processed independently: whatever the
\* result of a message, failure included, every later message and every status
\* event of the request is handed to the processor, in the order of the payload,
\* before the request is acknowledged.
C17_EventsIndependent ==
    \A p \in Procs :
        LET post == posts[p]
        IN  /\ post.pc \in {"awaitMessage", "awaitStatus"} =>
                   post.handled \o Remaining(post) = EventsOf(post.request.body.json[1])
            /\ (post.pc = "responded" /\ post.response = <<Acknowledged>>) =>
                   post.handled = EventsOf(post.request.body.json[1])

\* C17 witness: the first message of a request failed in the processor, its
\* second message is stored and answered, and its status event is applied to
\* that answer
C17_Witness ==
    \E p \in Procs :
        /\ posts[p].pc = "responded"
        /\ posts[p].failures >= 1
        /\ posts[p].handled = <<"wamid.w2", "wamid.w3", "wamid.out1">>
        /\ \E m \in Range(messages) : Incoming(m) /\ m.messageId = "wamid.w3"
        /\ \E m \in Range(messages) :
              AutoReply(m) /\ m.messageId = "wamid.out1" /\ m.status = "read"
        /\ ~\E m \in Range(messages) : m.messageId = "wamid.w2"

\* the channel ids a status event may carry: those of the stored messages, the
\* id of the first reply, stored or not, and one that is never stored
EventIds == {m.messageId : m \in Range(messages)} \cup {"wamid.out1", "wamid.unknown"}

\* C18: processing a status event adds no Customer and no Message and changes no
\* Customer; it changes at most one stored Message, of the channel id of the
\* event, and of it only the status; for a channel id that no stored message
\* has, nothing stored changes, and no invocation of the processor is touched.
C18_StatusEventFrame ==
    [][\A id \in EventIds : \A st \in EventStatuses :
          processStatusUpdate(id, st) =>
              /\ customers' = customers
              /\ procs' = procs
              /\ Len(messages') = Len(messages)
              /\ Cardinality({i \in DOMAIN messages : messages'[i] # messages[i]}) <= 1
              /\ \A i \in DOMAIN messages :
                    /\ messages'[i] = [messages[i] EXCEPT !.status = messages'[i].status]
                    /\ messages'[i] # messages[i] => messages[i].messageId = id
              /\ (\A m \in Range(messages) : m.messageId # id) => messages' = messages]_vars

\* C18 witness: a request whose status event names a channel id that no stored
\* message has was processed to its end and acknowledged, with a message stored
C18_Witness ==
    \E p \in Procs :
        /\ posts[p].pc = "responded"
        /\ posts[p].response = <<Acknowledged>>
        /\ "wamid.out1" \in Range(posts[p].handled)
        /\ messages # <<>>
        /\ \A m \in Range(messages) : m.messageId # "wamid.out1"

\* the stored messages that are outgoing
Outgoing == {m \in Range(messages) : m.direction = "outgoing"}

\* C19: a status event {channel id, status} for a stored outgoing message sets
\* the status of that message to the status of the event and adds no record;
\* the same event delivered again changes neither the statuses nor the number
\* of the stored messages.
C19_StatusUpdateIdempotent ==
    /\ [](\A m \in Outgoing : \A st \in validStatuses :
             LET once == updateStatus(messages, m.messageId, MessageStatus(st))
                 twice == updateStatus(once, m.messageId, MessageStatus(st))
             IN  /\ Len(once) = Len(messages)
                 /\ \A i \in DOMAIN messages :
                       messages[i].id = m.id => once[i].status = st
                 /\ twice = once)
    /\ [][\A m \in Outgoing : \A st \in validStatuses :
             processStatusUpdate(m.messageId, st) =>
                 /\ Len(messages') = Len(messages)
                 /\ \A n \in Range(messages') : n.id = m.id => n.status = st
                 /\ updateStatus(messages', m.messageId, MessageStatus(st)) = messages']_vars

\* C19 witness: the event {wamid.out1, read} was delivered by two requests, both
\* answered, and the one stored message wamid.out1 has the status read
C19_Witness ==
    /\ \A p \in Procs :
          /\ posts[p].pc = "responded"
          /\ "wamid.out1" \in Range(posts[p].handled)
    /\ Cardinality({i \in DOMAIN messages : messages[i].messageId = "wamid.out1"}) = 1
    /\ \E m \in Outgoing : m.messageId = "wamid.out1" /\ m.status = "read"
    /\ \E m \in Outgoing : m.messageId # "wamid.out1" /\ m.status = "sent"

\* an auto-reply is stored for a customer with the phone number of p's sender
ReplyRecordedFor(proc) ==
    \E m \in Range(messages) : \E c \in Range(customers) :
        /\ AutoReply(m)
        /\ m.customerId = c.id
        /\ c.phoneNumber = proc.msg.from

\* a customer is created: it is new, has no message counted, and no Message
\* refers to it yet
CreatedFirst ==
    Len(customers') > Len(customers) =>
        LET c == customers'[Len(customers')]
        IN  /\ Len(customers') = Len(customers) + 1
            /\ c.isNew
            /\ c.messageCount = 0
            /\ messages' = messages
            /\ \A m \in Range(messages) : m.customerId # c.id

\* the incoming Message is stored for a customer that is stored already
IncomingSecond(p) ==
    (procs[p].pc = "awaitCustomer" /\ procs'[p] # procs[p]) =>
        /\ \E c \in Range(customers) : c.id = procs[p].customer[1].id
        /\ customers' = customers
        /\ Len(messages') = Len(messages) + 1
        /\ Incoming(messages'[Len(messages')])
        /\ ~messages'[Len(messages')].isAutoReply
        /\ IncomingRecorded(procs[p])'

\* the activity is counted once the incoming Message is stored
ActivityThird(p) ==
    (procs[p].pc = "awaitSaveIncoming" /\ procs'[p] # procs[p]) =>
        /\ IncomingRecorded(procs[p])
        /\ messages' = messages
        /\ ActivityRecorded(procs[p])'

\* a reply is dispatched once the activity is counted; with the business-hours
\* check disabled or the business open, a customer read as new gets the
\* new-customer template
DispatchFourth(p) ==
    (procs'[p].pc = "awaitSend" /\ procs[p].pc # "awaitSend") =>
        /\ IncomingRecorded(procs[p])
        /\ ActivityRecorded(procs[p])
        /\ NothingPersisted
        /\ LET settings == procs[p].settings[1]
           IN  (/\ procs[p].customer[1].isNew
                /\ ~settings.businessHours.enabled \/ procs'[p].isBusinessHour) =>
                   procs'[p].replyMessage = settings.autoReply.newCustomerMessage

\* an outgoing Message is stored only in the step in which the API accepts the
\* send, as an auto-reply with the text sent, and no customer changes in it
OutgoingFifth ==
    (Len(messages') > Len(messages) /\ ~Incoming(messages'[Len(messages')])) =>
        \E p \in Procs :
            /\ procs[p].pc = "awaitSend"
            /\ procs'[p].pc = "awaitAutoReply"
            /\ nextWamid' = nextWamid + 1
            /\ autoReplies'[procs[p].msg.messageId] = autoReplies[procs[p].msg.messageId] + 1
            /\ AutoReply(messages'[Len(messages')])
            /\ messages'[Len(messages')].content = procs[p].replyMessage
            /\ messages'[Len(messages')].customerId = procs[p].customer[1].id
            /\ customers' = customers

\* isNew changes from true to false only, in a step of an invocation whose
\* reply is stored, and for a customer with the phone number of its sender
ReturningLast ==
    \A i \in DOMAIN customers :
        customers'[i].isNew # customers[i].isNew =>
            /\ customers[i].isNew
            /\ \E p \in Procs :
                  /\ procs[p].pc = "awaitFindReturning"
                  /\ procs'[p].pc = "done"
                  /\ procs[p].autoReplySent
                  /\ customers[i].phoneNumber = procs[p].msg.from
                  /\ ReplyRecordedFor(procs[p])

\* C20: the steps of a first contact happen in this order: the Customer is
\* created with isNew = true; the incoming Message is stored; the activity is
\* counted; the new-customer template is dispatched (business open or not
\* checked); the outgoing Message, isAutoReply = true, is stored in the step in
\* which the API accepts the send and never before; and only then isNew
\* becomes false.
C20_FirstContactOrder ==
    /\ [](Cardinality({i \in DOMAIN messages : ~Incoming(messages[i])}) = nextWamid)
    /\ [][/\ CreatedFirst
          /\ OutgoingFifth
          /\ ReturningLast
          /\ \A p \in Procs :
                IncomingSecond(p) /\ ActivityThird(p) /\ DispatchFourth(p)]_vars

\* C20 witness: one customer, no longer new, whose "Hi" is stored and counted
\* and was answered with the new-customer template
C20_Witness ==
    /\ Len(customers) = 1
    /\ ~customers[1].isNew
    /\ customers[1].messageCount = 1
    /\ Len(messages) = 2
    /\ Incoming(messages[1])
    /\ messages[1].content = "Hi"
    /\ AutoReply(messages[2])
    /\ messages[2].content = DefaultSettings.autoReply.newCustomerMessage
    /\ messages[2].customerId = customers[1].id
    /\ \E p \in Procs : procs[p].result = <<[success |-> TRUE, autoReplySent |-> TRUE]>>

----------------------------------------------------------------------------
\* no invocation of processIncomingMessage is between two of its awaits
Quiescent == \A p \in Procs : procs[p].pc \in {"idle", "done"}

\* the distinct channel message ids of the incoming messages stored for a customer
InboundIdsOf(customerId) ==
    {messages[i].messageId :
        i \in {j \in DOMAIN messages : /\ Incoming(messages[j])
                                       /\ messages[j].customerId = customerId}}

\* C21: once every delivery has been processed, the messageCount of each customer
\* is the number of distinct inbound channel messages stored for that customer: no
\* increment is lost when two deliveries are processed concurrently, and none is
\* added when a message is delivered again.
C21_MessageCountIsInboundCount ==
    Quiescent =>
        \A i \in DOMAIN customers :
            customers[i].messageCount = Cardinality(InboundIdsOf(customers[i].id))

\* the time a clock shows at a minute of the day, as the characters of "HH:MM"
ClockTime(minute) == TwoDigit(minute \div 60) \o <<":">> \o TwoDigit(minute % 60)

\* C22: for a time zone the runtime knows, isBusinessHour returns false when the
\* schedule has no entry for the local weekday or the entry is disabled, and for
\* an enabled day it returns true exactly when start <= localTime <= end, both
\* ends included, comparing the HH:MM of the local clock as strings.
C22_BusinessHourWindow ==
    \A k \in DOMAIN lastCall :
        LET call == lastCall[k]
            timezone == call.args[1]
            schedule == call.args[2]
            local == LocalClock(call.args[3], timezone)
            day == Weekdays[local.day + 1]
        IN  (call.op = "isBusinessHour" /\ timezone \in DOMAIN UtcOffset) =>
                call.result =
                    (/\ day \in DOMAIN schedule
                     /\ schedule[day].enabled
                     /\ StringLeq(Chars(schedule[day].start), ClockTime(local.minute))
                     /\ StringLeq(ClockTime(local.minute), Chars(schedule[day].end)))

\* the settings switch the business-hours check on with a time zone name for which
\* the runtime throws
TimezoneFails(settings) ==
    /\ settings.businessHours.enabled
    /\ settings.businessHours.timezone \notin DOMAIN UtcOffset

\* C23: when the time zone of the settings cannot be resolved, isBusinessHour
\* returns true: with the business-hours check enabled, the reply that is chosen is
\* never the after-hours template, but the new-customer or returning-customer
\* template according to isNew of the customer.
C23_TimezoneFailureFailsOpen ==
    [][\A p \in Procs :
          (/\ procs[p].pc = "awaitSettings"
           /\ procs'[p].pc = "awaitSend"
           /\ TimezoneFails(procs[p].settings[1])) =>
              /\ procs'[p].isBusinessHour
              /\ procs'[p].replyMessage =
                    IF procs[p].customer[1].isNew
                    THEN procs[p].settings[1].autoReply.newCustomerMessage
                    ELSE procs[p].settings[1].autoReply.returningCustomerMessage]_vars

\* a returning customer is about to get the returning-customer template while the
\* settings in force name a time zone that cannot be resolved
C23_Witness ==
    \E p \in Procs :
        /\ botSettings # <<>>
        /\ TimezoneFails(botSettings[1])
        /\ putReq = <<>>
        /\ procs[p].pc = "awaitSend"
        /\ procs[p].isBusinessHour
        /\ ~procs[p].customer[1].isNew
        /\ procs[p].replyMessage = botSettings[1].autoReply.returningCustomerMessage

\* C24: a markAsRead that fails does not end the processing.  The client has no
\* credentials until the first reply decision, so markAsRead fails for certain
\* then; the invocation goes on to read the settings and to decide, and a reply
\* whose dispatch succeeds is stored and counted for the inbound message.
C24_MarkAsReadFailureIgnored ==
    [][\A p \in Procs :
          /\ (procs[p].pc = "awaitUpdate" /\ procs'[p] # procs[p]) =>
                /\ procs'[p].pc = "awaitSettings"
                /\ procs'[p].settings = SettingsAfterGet(botSettings)
                /\ procs'[p].result = <<>>
          /\ (procs[p].pc = "awaitSend" /\ procs'[p].pc = "awaitAutoReply") =>
                /\ Len(messages') = Len(messages) + 1
                /\ AutoReply(messages'[Len(messages')])
                /\ messages'[Len(messages')].content = procs[p].replyMessage
                /\ messages'[Len(messages')].customerId = procs[p].customer[1].id
                /\ autoReplies'[procs[p].msg.messageId] =
                      autoReplies[procs[p].msg.messageId] + 1]_vars

\* the first invocation ever has sent its reply: its markAsRead ran on the client
\* without credentials and failed
C24_Witness ==
    \E p \in Procs :
        /\ procs[p].pc = "awaitAutoReply"
        /\ \A q \in Procs \ {p} : procs[q].pc = "idle"
        /\ delivered = 1
        /\ \E i \in DOMAIN messages :
              AutoReply(messages[i]) /\ messages[i].customerId = procs[p].customer[1].id

\* C25: a verification request is answered with its challenge exactly when its
\* mode is 'subscribe' and its token is the verify token of the settings in force
\* at that moment: once a settings update has changed the token, the new token is
\* accepted and the old one is refused.
C25_VerifyAgainstConfiguredToken ==
    [][(lastCall' # lastCall /\ lastCall'[1].op = "GET") =>
          LET call == lastCall'[1]
              configured == SettingsAfterGet(botSettings)[1].verifyToken
          IN  (call.result = [status |-> 200, body |-> call.args[3]])
                  <=> (call.args[1] = "subscribe" /\ call.args[2] = configured)]_vars

\* the stored customers with the id an operator named
NamedCustomers == {i \in DOMAIN customers : customers[i].id = manual.customerId}

\* the messages an operator's send has stored
ManualMessages ==
    {i \in DOMAIN messages : messages[i].direction = "outgoing" /\ ~messages[i].isAutoReply}

\* C26: sendManualMessage resolves the customer by the id it is given.  For an id
\* that is stored it does not answer 'Customer not found', and when it succeeds
\* the message went to the phone number of that customer and is stored as an
\* outgoing message that is no auto-reply, under that customer id; for an id that
\* is not stored it answers 'Customer not found' and stores nothing.
C26_ManualSendResolvesById ==
    manual.pc = "done" =>
        IF NamedCustomers # {}
        THEN /\ manual.result[1].error # "Customer not found"
             /\ manual.result[1].success =>
                   /\ \E i \in NamedCustomers :
                         customers[i].phoneNumber = manual.customer[1].phoneNumber
                   /\ \E i \in ManualMessages :
                         /\ messages[i].customerId = manual.customerId
                         /\ messages[i].content = manual.content
        ELSE /\ manual.result = ManualResult(FALSE, "Customer not found")
             /\ ManualMessages = {}

\* the stored messages that carry a channel message id
Carrying(messageId) == {i \in DOMAIN messages : messages[i].messageId = messageId}

\* the one of them that was recorded last: ids are handed out in recording order
NewestOf(hits) == CHOOSE i \in hits : \A j \in hits : messages[j].id <= messages[i].id

\* C27: a status update applies to the message recorded last among those that
\* carry the channel message id: its status changes, and the others that share
\* the id stay as they are, whatever list queries ran before.
C27_StatusUpdateOnNewest ==
    [][\A messageId \in StoredIds :
          (processStatusUpdate(messageId, "read") /\ Carrying(messageId) # {}) =>
              \A i \in Carrying(messageId) :
                  messages'[i] = IF i = NewestOf(Carrying(messageId))
                                 THEN [messages[i] EXCEPT !.status = "read"]
                                 ELSE messages[i]]_vars

\* C28: the ledger only grows, and a stored Message changes in its status only:
\* no step of a webhook delivery, of a status event or of an operator's send
\* removes a Message or changes the id, customer id, channel message id,
\* direction, content, isAutoReply or timestamp of one.
C28_LedgerAppendOnly ==
    [][/\ Len(messages') >= Len(messages)
       /\ \A i \in DOMAIN messages :
             [messages'[i] EXCEPT !.status = messages[i].status] = messages[i]]_vars

\* the ledger holds an incoming message whose status an event has changed, an
\* auto-reply and a message of an operator
C28_Witness ==
    /\ \E i \in DOMAIN messages : Incoming(messages[i]) /\ messages[i].status = "read"
    /\ \E i \in DOMAIN messages : AutoReply(messages[i]) /\ messages[i].status = "failed"
    /\ ManualMessages # {}

\* the stored auto-replies to a customer that carry the new-customer template
GreetingsOf(customerId) ==
    {i \in DOMAIN messages :
        /\ AutoReply(messages[i])
        /\ messages[i].customerId = customerId
        /\ messages[i].content = DefaultSettings.autoReply.newCustomerMessage}

\* C29: for each customer at most one auto-reply with the new-customer template
\* is ever dispatched, also when two messages of a sender not seen before are
\* processed concurrently: the second decision sees the customer as returning.
C29_OneGreetingPerCustomer ==
    \A i \in DOMAIN customers : Cardinality(GreetingsOf(customers[i].id)) <= 1

\* a list of messages is ordered newest first
NewestFirst(ms) == \A i, j \in DOMAIN ms : i < j => ms[i].timestamp >= ms[j].timestamp

\* C30: findRecent and findByCustomerId return messages newest first, and leave
\* the stored ledger as it is, its stored order included.
C30_QueriesLeaveLedger ==
    [][/\ \A limit \in Limits :
            findRecent(limit) =>
                /\ NewestFirst(lastCall'[1].result)
                /\ messages' = messages
       /\ \A customerId \in ManualCustomerIds : \A offset \in Offsets : \A limit \in Limits :
            findByCustomerId(customerId, offset, limit) =>
                /\ NewestFirst(lastCall'[1].result)
                /\ messages' = messages]_vars

====
